---- MODULE Spec2Model ----
(***************************************************************************)
(* A model of the car_picker core: the filename parser, the digest-keyed   *)
(* index cache (load_index) and its writers, the answer-choice generator,  *)
(* the scoring function, and the quiz engine driven by the app's sessions. *)
(*                                                                         *)
(* Strings are sequences of one-character strings, so that splitting,      *)
(* joining, integer parsing and lexicographic sorting are computed the way *)
(* the Python code computes them.                                          *)
(***************************************************************************)
EXTENDS Integers, Sequences, FiniteSets, TLC

(***************************************************************************)
(* Bounds of the model.                                                    *)
(***************************************************************************)
\* environment operations (file add / remove / touch, cache tampering) per run
MaxFsOps == 1
\* load_index calls per run
MaxLoads == 2
\* largest modification time a touch can produce
MaxMtime == 1
\* largest total_choices passed to generate_choices
MaxChoices == 3
\* largest number of image files behind the index handed to generate_choices
MaxIndexFiles == 3
\* units of text one write call of a process dumping the snapshot carries
MaxWriteLen == 2
\* largest total_questions of a quiz session
MaxQuestions == 2
\* the clock runs from 0 to MaxNow; the time limit of a session is MaxNow
MaxNow == 1

(***************************************************************************)
(* Strings.                                                                *)
(***************************************************************************)
\* code points of the characters that occur in the modelled file names
Ord ==
  (" " :> 32) @@ ("+" :> 43) @@ ("-" :> 45) @@ ("." :> 46) @@ ("/" :> 47) @@
  ("0" :> 48) @@ ("1" :> 49) @@ ("2" :> 50) @@ ("3" :> 51) @@ ("4" :> 52) @@
  ("5" :> 53) @@ ("6" :> 54) @@ ("7" :> 55) @@ ("8" :> 56) @@ ("9" :> 57) @@
  (":" :> 58) @@ ("F" :> 70) @@ ("H" :> 72) @@ ("_" :> 95) @@ ("a" :> 97) @@
  ("b" :> 98) @@ ("d" :> 100) @@ ("e" :> 101) @@ ("g" :> 103) @@
  ("j" :> 106) @@ ("n" :> 110) @@ ("p" :> 112) @@ ("s" :> 115) @@
  ("t" :> 116) @@ ("u" :> 117) @@ ("x" :> 120)

IsDigit(c) == Ord[c] >= 48 /\ Ord[c] <= 57

\* Python's str < str: lexicographic by code point
RECURSIVE StrLess(_, _)
StrLess(a, b) ==
  IF b = <<>> THEN FALSE
  ELSE IF a = <<>> THEN TRUE
  ELSE IF Ord[Head(a)] # Ord[Head(b)] THEN Ord[Head(a)] < Ord[Head(b)]
  ELSE StrLess(Tail(a), Tail(b))

\* str.split(sep): every separator cuts, empty tokens are kept
RECURSIVE SplitFrom(_, _, _, _)
SplitFrom(s, sep, cur, acc) ==
  IF s = <<>> THEN Append(acc, cur)
  ELSE IF Head(s) = sep THEN SplitFrom(Tail(s), sep, <<>>, Append(acc, cur))
  ELSE SplitFrom(Tail(s), sep, Append(cur, Head(s)), acc)

Split(s, sep) == SplitFrom(s, sep, <<>>, <<>>)

\* sep.join(tokens)
RECURSIVE Join(_, _)
Join(tokens, sep) ==
  IF tokens = <<>> THEN <<>>
  ELSE IF Len(tokens) = 1 THEN tokens[1]
  ELSE tokens[1] \o <<sep>> \o Join(Tail(tokens), sep)

\* str.rfind(c): the last index of c, counted from 0, or -1
RECURSIVE RFind(_, _)
RFind(s, c) ==
  IF s = <<>> THEN -1
  ELSE IF s[Len(s)] = c THEN Len(s) - 1
  ELSE RFind(SubSeq(s, 1, Len(s) - 1), c)

EndsWith(s, suffix) ==
  /\ Len(s) >= Len(suffix)
  /\ SubSeq(s, Len(s) - Len(suffix) + 1, Len(s)) = suffix

\* str.strip() for the blank character
RECURSIVE LStrip(_)
LStrip(s) == IF s # <<>> /\ Head(s) = " " THEN LStrip(Tail(s)) ELSE s

RECURSIVE RStrip(_)
RStrip(s) ==
  IF s # <<>> /\ s[Len(s)] = " " THEN RStrip(SubSeq(s, 1, Len(s) - 1)) ELSE s

RECURSIVE DigitsValue(_, _)
DigitsValue(s, acc) ==
  IF s = <<>> THEN acc ELSE DigitsValue(Tail(s), 10 * acc + (Ord[Head(s)] - 48))

\* int(token): blanks stripped, an optional sign, then one or more digits;
\* anything else raises ValueError (ok = FALSE)
ParseInt(tok) ==
  LET t == RStrip(LStrip(tok))
      signed == t # <<>> /\ Head(t) \in {"+", "-"}
      body == IF signed THEN Tail(t) ELSE t
      good == body # <<>> /\ \A i \in 1..Len(body) : IsDigit(body[i])
  IN  IF ~good THEN [ok |-> FALSE, val |-> 0]
      ELSE [ok |-> TRUE,
            val |-> IF signed /\ Head(t) = "-"
                    THEN 0 - DigitsValue(body, 0) ELSE DigitsValue(body, 0)]

DigitChar(d) == CHOOSE c \in DOMAIN Ord : Ord[c] = 48 + d

RECURSIVE NatToStr(_)
NatToStr(n) ==
  IF n < 10 THEN <<DigitChar(n)>>
  ELSE Append(NatToStr(n \div 10), DigitChar(n % 10))

\* str(int)
IntToStr(n) == IF n < 0 THEN <<"-">> \o NatToStr(0 - n) ELSE NatToStr(n)

(***************************************************************************)
(* Paths.  A path is [dir, name]: the directory names below the data       *)
(* directory and the file name.                                            *)
(***************************************************************************)
PathParts(p) == Append(p.dir, p.name)

\* str(path)
PathStr(p) == Join(PathParts(p), "/")

\* Path(str)
PathOf(s) ==
  LET parts == Split(s, "/")
  IN  [dir |-> SubSeq(parts, 1, Len(parts) - 1), name |-> parts[Len(parts)]]

\* path.stem: the name without its last suffix
PathStem(p) ==
  LET i == RFind(p.name, ".")
  IN  IF 0 < i /\ i < Len(p.name) - 1 THEN SubSeq(p.name, 1, i) ELSE p.name

\* Path < Path: lexicographic on the parts
RECURSIVE PartsLess(_, _)
PartsLess(a, b) ==
  IF b = <<>> THEN FALSE
  ELSE IF a = <<>> THEN TRUE
  ELSE IF Head(a) # Head(b) THEN StrLess(Head(a), Head(b))
  ELSE PartsLess(Tail(a), Tail(b))

PathLess(p, q) == PartsLess(PathParts(p), PathParts(q))

\* sorted(paths)
RECURSIVE SortedInsert(_, _)
SortedInsert(sorted, p) ==
  IF sorted = <<>> THEN <<p>>
  ELSE IF PathLess(p, Head(sorted)) THEN <<p>> \o sorted
  ELSE <<Head(sorted)>> \o SortedInsert(Tail(sorted), p)

RECURSIVE SortPaths(_)
SortPaths(paths) ==
  IF paths = <<>> THEN <<>>
  ELSE SortedInsert(SortPaths(SubSeq(paths, 1, Len(paths) - 1)), paths[Len(paths)])

(***************************************************************************)
(* parser.py                                                               *)
(***************************************************************************)
SPEC_KEYS ==
  << "make", "model", "year", "msrp", "front_wheel_size_in", "sae_net_hp_rpm",
     "displacement", "engine_type", "width_in", "height_in", "length_in",
     "gas_mileage", "drivetrain", "passenger_capacity", "passenger_doors",
     "body_style" >>

TOKEN_COUNT == Len(SPEC_KEYS) + 1

NoCar == [none |-> TRUE]

\* CarImage(id, path, make, model, year, random_id, specs)
CarImage(id, path, make, model, year, random_id, specs) ==
  [id |-> id, path |-> path, make |-> make, model |-> model, year |-> year,
   random_id |-> random_id, specs |-> specs]

\* the stem used as identifier
StemIdentifier(stem) == stem

\* a stem with more than TOKEN_COUNT tokens is rejected
parse_filename_ExactCount(path) ==
  LET stem == PathStem(path)
      parts == Split(stem, "_")
  IN  IF Len(parts) # TOKEN_COUNT THEN NoCar
      ELSE
        LET specs_raw == SubSeq(parts, 1, Len(SPEC_KEYS))
            random_id == parts[Len(SPEC_KEYS) + 1]
            specs == [k \in {SPEC_KEYS[i] : i \in 1..Len(SPEC_KEYS)} |->
                        specs_raw[CHOOSE i \in 1..Len(SPEC_KEYS) : SPEC_KEYS[i] = k]]
            year == ParseInt(specs["year"])
        IN  IF ~year.ok THEN NoCar
            ELSE CarImage(StemIdentifier(stem), path, specs["make"],
                          specs["model"], year.val, random_id, specs)

parse_filename(path) ==
  LET stem == PathStem(path)
      parts == Split(stem, "_")
  IN  IF Len(parts) < TOKEN_COUNT THEN NoCar
      ELSE
        LET specs_raw == SubSeq(parts, 1, Len(SPEC_KEYS))
            random_id == parts[Len(SPEC_KEYS) + 1]
            specs == [k \in {SPEC_KEYS[i] : i \in 1..Len(SPEC_KEYS)} |->
                        specs_raw[CHOOSE i \in 1..Len(SPEC_KEYS) : SPEC_KEYS[i] = k]]
            year == ParseInt(specs["year"])
        IN  IF ~year.ok THEN NoCar
            ELSE CarImage(StemIdentifier(stem), path, specs["make"],
                          specs["model"], year.val, random_id, specs)

(***************************************************************************)
(* The files the environment can put under the data directory.             *)
(***************************************************************************)
Str1(c) == <<c>>

\* a stem with the 16 spec tokens (the 13 after the year left empty) and a suffix
Stem17(make, model, year, suffix) ==
  Join(<<make, model, year>> \o [i \in 1..13 |-> <<>>] \o <<suffix>>, "_")

\* a stem with 16 tokens only: the random suffix is missing
Stem16(make, model, year) ==
  Join(<<make, model, year>> \o [i \in 1..13 |-> <<>>], "_")

FileAt(dir, stem, ext) == [dir |-> dir, name |-> stem \o <<".">> \o ext]

ExtJpg == <<"j", "p", "g">>
ExtJpeg == <<"j", "p", "e", "g">>
ExtPng == <<"p", "n", "g">>
ExtTxt == <<"t", "x", "t">>
SubDir == << <<"s", "u", "b">> >>

FileA == FileAt(<<>>, Stem17(Str1("F"), Str1("a"), <<"1", "2">>, Str1("s")), ExtJpg)
\* the same stem as FileA, in a subdirectory and with another extension
FileB == FileAt(SubDir, Stem17(Str1("F"), Str1("a"), <<"1", "2">>, Str1("s")), ExtPng)
FileC == FileAt(<<>>, Stem17(Str1("F"), Str1("b"), <<"1", "2">>, Str1("t")), ExtJpeg)
\* rejected by the parser: 16 tokens
FileShort == FileAt(<<>>, Stem16(Str1("H"), Str1("a"), <<"1", "2">>), ExtJpg)
\* not an image
FileTxt == FileAt(<<>>, Stem17(Str1("H"), Str1("a"), <<"1", "2">>, Str1("s")), ExtTxt)

\* the files that come and go
LoadFiles == {FileA, FileB, FileShort}
\* the files under the data directory
AllFiles == LoadFiles \cup {FileTxt}

(***************************************************************************)
(* indexer.py: pure parts                                                  *)
(***************************************************************************)
\* the patterns of _iter_image_paths, in the order they are globbed
Patterns == <<ExtJpg, ExtJpeg, ExtPng>>

\* fnmatch of a file name against "*.<ext>"
MatchesPattern(p, ext) == EndsWith(p.name, <<".">> \o ext)

\* the orders in which one rglob pass may list a set of files
Listings(S) ==
  {q \in [1..Cardinality(S) -> S] : \A i, j \in DOMAIN q : i # j => q[i] # q[j]}

\* f"{path}:{int(stat.st_mtime_ns)}:{stat.st_size}"
DigestEntry(path, stat) ==
  PathStr(path) \o <<":">> \o IntToStr(stat.mtime) \o <<":">> \o IntToStr(stat.size)

\* hasher.update(entry): md5 is modelled as injective, so the digest is the
\* byte string fed to the hasher
HasherUpdate(hasher, entry) == hasher \o entry

\* the paths digested in discovery order
DigestOrder_Unsorted(paths) == paths

\* the order in which _compute_digest visits the paths
DigestOrder(paths) == SortPaths(paths)

\* one entry of the "records" list written by to_json_serializable
EntryOf(car) ==
  [id |-> car.id, path |-> PathStr(car.path), make |-> car.make,
   model |-> car.model, year |-> car.year, random_id |-> car.random_id,
   specs |-> car.specs]

SNAPSHOT_VERSION == 1

to_json_serializable(recs, dg) ==
  [version |-> SNAPSHOT_VERSION, digest |-> dg,
   records |-> [i \in 1..Len(recs) |-> EntryOf(recs[i])]]

\* the keys load_index reads with entry[...]: a missing one raises KeyError
RequiredKeys == {"id", "path", "make", "model", "year"}

EntryReadable(entry) == RequiredKeys \subseteq DOMAIN entry

\* CarImage(...) built from one entry of the snapshot
CarOfEntry(entry) ==
  CarImage(entry.id, PathOf(entry.path), entry.make, entry.model, entry.year,
           IF "random_id" \in DOMAIN entry THEN entry.random_id ELSE <<>>,
           IF "specs" \in DOMAIN entry THEN entry.specs ELSE <<>>)

\* the records parse_filename yields for the paths, in order, rejects dropped
RECURSIVE ParseAll(_)
ParseAll(paths) ==
  IF paths = <<>> THEN <<>>
  ELSE LET car == parse_filename(Head(paths))
       IN  IF car = NoCar THEN ParseAll(Tail(paths))
           ELSE <<car>> \o ParseAll(Tail(paths))

SeqRange(s) == {s[i] : i \in DOMAIN s}

\* the key a record is filed under in by_make / by_make_model
GroupKey(record, by) ==
  IF by = "make" THEN record.make ELSE <<record.make, record.model>>

\* the record is put at the front of its group
GroupAppend_Front(groups, key, record) ==
  IF key \in DOMAIN groups
  THEN [groups EXCEPT ![key] = <<record>> \o @]
  ELSE (key :> <<record>>) @@ groups

\* by_make[record.make].append(record) on a defaultdict(list)
GroupAppend(groups, key, record) ==
  IF key \in DOMAIN groups
  THEN [groups EXCEPT ![key] = Append(@, record)]
  ELSE (key :> <<record>>) @@ groups

\* the loop of _build_dataset_index for one of the two maps
RECURSIVE GroupRecords(_, _, _)
GroupRecords(recs, groups, by) ==
  IF recs = <<>> THEN groups
  ELSE GroupRecords(Tail(recs),
                    GroupAppend(groups, GroupKey(Head(recs), by), Head(recs)), by)

build_dataset_index(recs) ==
  [records |-> recs,
   by_make |-> GroupRecords(recs, <<>>, "make"),
   by_make_model |-> GroupRecords(recs, <<>>, "make_model")]

get_random_pool(index) == index.records

get_by_make(index, make) ==
  IF make \in DOMAIN index.by_make THEN index.by_make[make] ELSE <<>>

get_by_make_model(index, make, model) ==
  IF <<make, model>> \in DOMAIN index.by_make_model
  THEN index.by_make_model[<<make, model>>] ELSE <<>>

(***************************************************************************)
(* State of the index loader.                                              *)
(***************************************************************************)
VARIABLES
  \* the data directory: fs[f] = [present, mtime, size]
  fs,
  \* the content of the cache file index.json
  cache,
  \* load_index: position, argument and locals
  pc, force_rebuild, image_paths, todo, digest, payload, records,
  \* what the last finished load_index call did, and the one before it
  ret, prev,
  \* bookkeeping: calls made, environment operations made, and whether the
  \* environment acted since the current (dirty) / the previous (prev_dirty)
  \* call began
  loads, fsops, dirty, prev_dirty,
  \* generate_choices: position, arguments, locals and the returned list
  gpc, index, correct, mode, total_choices, seen_ids, seen_labels, distractors,
  pools, choices,
  \* the shuffle calls generate_choices has made on its random source
  rng_calls,
  \* _compute_score: position, arguments and the returned ScoreDetail
  spc, score_correct, score_guess, score_mode, score_detail,
  \* parse_filename: position, argument and the returned record
  ppc, parse_path, parse_result,
  \* two rebuilding processes writing index.json: the bytes of the file, and
  \* per writer its position, the text it dumps and its file offset
  cache_text, writers,
  \* the quiz: the index the app holds, the QuizState of each session, the
  \* clock, and per session the questions issued since its last create / reset
  dataset, state, now, issued

loadVars ==
  <<fs, cache, pc, force_rebuild, image_paths, todo, digest, payload,
    records, ret, prev, loads, fsops, dirty, prev_dirty>>

genVars ==
  <<gpc, index, correct, mode, total_choices, seen_ids, seen_labels, distractors,
    pools, choices, rng_calls>>

scoreVars == <<spc, score_correct, score_guess, score_mode, score_detail>>

parseVars == <<ppc, parse_path, parse_result>>

writerVars == <<cache_text, writers>>

quizVars == <<dataset, state, now, issued>>

vars == <<loadVars, genVars, scoreVars, parseVars, writerVars, quizVars>>

(***************************************************************************)
(* The cache file.                                                         *)
(***************************************************************************)
CacheMissing == [kind |-> "missing"]
\* not JSON, or not readable
CacheGarbage == [kind |-> "garbage"]
CacheJson(snapshot) == [kind |-> "json", snapshot |-> snapshot]
\* the value of the local before the file is looked at
NotRead == [kind |-> "notread"]

\* the call wrote no cache file
NotWritten == [kind |-> "notwritten"]

NoRet == [kind |-> "none"]

PresentFiles == {f \in AllFiles : fs[f].present}

StatOf(f) == [mtime |-> fs[f].mtime, size |-> fs[f].size]

\* the version tag is not compared
SnapshotMatches_AnyVersion(snapshot, dg) == snapshot.digest = dg

\* the digest is not compared
SnapshotMatches_AnyDigest(snapshot, dg) == snapshot.version = SNAPSHOT_VERSION

\* payload.get("version") == 1 and payload.get("digest") == digest
SnapshotMatches(snapshot, dg) ==
  snapshot.version = SNAPSHOT_VERSION /\ snapshot.digest = dg

\* a matching snapshot is used even when its record list is empty
ReadSnapshot_AcceptEmpty(force, file, dg) ==
  IF force \/ file.kind = "missing" THEN [how |-> "skip", records |-> <<>>]
  ELSE IF file.kind = "garbage" THEN [how |-> "error", records |-> <<>>]
  ELSE IF ~SnapshotMatches(file.snapshot, dg) THEN [how |-> "miss", records |-> <<>>]
  ELSE IF \E i \in DOMAIN file.snapshot.records : ~EntryReadable(file.snapshot.records[i])
       THEN [how |-> "error", records |-> <<>>]
  ELSE [how |-> "hit",
        records |-> [i \in DOMAIN file.snapshot.records |->
                       CarOfEntry(file.snapshot.records[i])]]

\* what the cache branch of load_index does with the file: "skip" (the file is
\* not looked at), "miss" (no usable snapshot), "error" (an exception, caught
\* and logged) or "hit" with the deserialized records
ReadSnapshot(force, file, dg) ==
  IF force \/ file.kind = "missing" THEN [how |-> "skip", records |-> <<>>]
  ELSE IF file.kind = "garbage" THEN [how |-> "error", records |-> <<>>]
  ELSE IF ~SnapshotMatches(file.snapshot, dg) THEN [how |-> "miss", records |-> <<>>]
  ELSE IF \E i \in DOMAIN file.snapshot.records : ~EntryReadable(file.snapshot.records[i])
       THEN [how |-> "error", records |-> <<>>]
  ELSE LET recs == [i \in DOMAIN file.snapshot.records |->
                      CarOfEntry(file.snapshot.records[i])]
       IN  IF recs # <<>> THEN [how |-> "hit", records |-> recs]
           ELSE [how |-> "miss", records |-> <<>>]

(***************************************************************************)
(* load_index, step by step.                                               *)
(***************************************************************************)
\* the call ends: returns an index ("hit", "rebuilt") or raises
Finish(kind, recs, parsed, seen, written) ==
  /\ ret' = [kind |-> kind, index |-> build_dataset_index(recs), parsed |-> parsed,
             image_paths |-> image_paths, digest |-> digest, force |-> force_rebuild,
             seen |-> seen, written |-> written, present |-> PresentFiles,
             quiet |-> ~dirty]
  /\ pc' = "idle"
  /\ loads' = loads + 1
  /\ image_paths' = <<>>
  /\ todo' = <<>>
  /\ digest' = <<>>
  /\ payload' = NotRead
  /\ records' = <<>>
  /\ force_rebuild' = FALSE

\* load_index(data_dir, cache_dir, thumb_dir, force_rebuild) is called
LoadCall ==
  /\ pc = "idle"
  /\ loads < MaxLoads
  /\ \E force \in BOOLEAN : force_rebuild' = force
  /\ pc' = "enum"
  /\ prev' = IF ret.kind = "none" THEN NoRet
             ELSE [kind |-> ret.kind, records |-> ret.index.records,
                   image_paths |-> ret.image_paths]
  /\ prev_dirty' = dirty
  /\ dirty' = FALSE
  /\ UNCHANGED <<fs, cache, image_paths, todo, digest, payload, records,
                 ret, loads, fsops, genVars, scoreVars, parseVars, writerVars, quizVars>>

\* the orders in which _iter_image_paths may yield the present files: the
\* patterns one after the other, each rglob pass in any order
RECURSIVE Enumerations(_)
Enumerations(k) ==
  IF k = 0 THEN {<<>>}
  ELSE {head \o listing :
          head \in Enumerations(k - 1),
          listing \in Listings({f \in PresentFiles : MatchesPattern(f, Patterns[k])})}

\* image_paths = list(_iter_image_paths(data_dir)), not empty
Enumerate ==
  /\ pc = "enum"
  /\ \E listing \in Enumerations(Len(Patterns)) :
       /\ listing # <<>>
       /\ image_paths' = listing
       /\ todo' = DigestOrder(listing)
  /\ pc' = "stat"
  /\ UNCHANGED <<fs, cache, force_rebuild, digest, payload, records, ret,
                 prev, loads, fsops, dirty, prev_dirty, genVars, scoreVars, parseVars, writerVars, quizVars>>

\* no image file is found: raise FileNotFoundError
RaiseEmptyDataset ==
  /\ pc = "enum"
  /\ Enumerations(Len(Patterns)) = {<<>>}
  /\ Finish("EmptyDataset", <<>>, 0, NotRead, NotWritten)
  /\ UNCHANGED <<fs, cache, prev, fsops, dirty, prev_dirty, genVars, scoreVars, parseVars, writerVars, quizVars>>

\* _compute_digest: stat the next path; a path that is gone is skipped
StatNext ==
  /\ pc = "stat"
  /\ todo # <<>>
  /\ digest' = IF fs[Head(todo)].present
               THEN HasherUpdate(digest, DigestEntry(Head(todo), StatOf(Head(todo))))
               ELSE digest
  /\ todo' = Tail(todo)
  /\ UNCHANGED <<fs, cache, pc, force_rebuild, image_paths, payload,
                 records, ret, prev, loads, fsops, dirty, prev_dirty, genVars, scoreVars, parseVars, writerVars, quizVars>>

\* the snapshot is read and matches: return the index built from its records
CacheHit ==
  /\ pc = "stat"
  /\ todo = <<>>
  /\ ReadSnapshot(force_rebuild, cache, digest).how = "hit"
  /\ Finish("hit", ReadSnapshot(force_rebuild, cache, digest).records, 0, cache, NotWritten)
  /\ UNCHANGED <<fs, cache, prev, fsops, dirty, prev_dirty, genVars, scoreVars, parseVars, writerVars, quizVars>>

\* no usable snapshot: parse every enumerated path
ParseFiles ==
  /\ pc = "stat"
  /\ todo = <<>>
  /\ ReadSnapshot(force_rebuild, cache, digest).how # "hit"
  /\ payload' = IF force_rebuild THEN NotRead ELSE cache
  /\ records' = ParseAll(image_paths)
  /\ pc' = "parsed"
  /\ UNCHANGED <<fs, cache, force_rebuild, image_paths, todo, digest, ret,
                 prev, loads, fsops, dirty, prev_dirty, genVars, scoreVars, parseVars, writerVars, quizVars>>

\* if not records: raise RuntimeError
RaiseNoValidRecords ==
  /\ pc = "parsed"
  /\ records = <<>>
  /\ Finish("NoValidRecords", <<>>, Len(image_paths), payload, NotWritten)
  /\ UNCHANGED <<fs, cache, prev, fsops, dirty, prev_dirty, genVars, scoreVars, parseVars, writerVars, quizVars>>

\* the snapshot is written and the rebuilt index returned
PersistSnapshot ==
  /\ pc = "parsed"
  /\ records # <<>>
  /\ cache' = CacheJson(to_json_serializable(records, digest))
  /\ Finish("rebuilt", records, Len(image_paths), payload,
            CacheJson(to_json_serializable(records, digest)))
  /\ UNCHANGED <<fs, prev, fsops, dirty, prev_dirty, genVars, scoreVars, parseVars, writerVars, quizVars>>

(***************************************************************************)
(* The environment: other processes changing the data directory and the    *)
(* cache file.                                                             *)
(***************************************************************************)
EnvStep ==
  /\ fsops < MaxFsOps
  /\ loads < MaxLoads
  /\ loads > 0 \/ pc # "idle"
  /\ fsops' = fsops + 1
  /\ dirty' = TRUE
  /\ UNCHANGED <<pc, force_rebuild, image_paths, todo, digest, payload,
                 records, ret, prev, loads, prev_dirty, genVars, scoreVars, parseVars, writerVars, quizVars>>

AddFile ==
  /\ \E f \in LoadFiles :
       /\ ~fs[f].present
       /\ fs' = [fs EXCEPT ![f] = [present |-> TRUE, mtime |-> 0, size |-> 0]]
  /\ EnvStep
  /\ UNCHANGED cache

RemoveFile ==
  /\ \E f \in LoadFiles :
       /\ fs[f].present
       /\ fs' = [fs EXCEPT ![f] = [present |-> FALSE, mtime |-> 0, size |-> 0]]
  /\ EnvStep
  /\ UNCHANGED cache

TouchFile ==
  /\ \E f \in LoadFiles :
       /\ fs[f].present
       /\ fs[f].mtime < MaxMtime
       /\ fs' = [fs EXCEPT ![f].mtime = @ + 1]
  /\ EnvStep
  /\ UNCHANGED cache

\* the cache file is deleted
CacheDelete ==
  /\ cache.kind # "missing"
  /\ cache' = CacheMissing
  /\ EnvStep
  /\ UNCHANGED fs

\* the cache file is overwritten with something that is not JSON
CacheGarble ==
  /\ cache.kind # "garbage"
  /\ cache' = CacheGarbage
  /\ EnvStep
  /\ UNCHANGED fs

\* the snapshot is rewritten under another schema version
CacheOtherVersion ==
  /\ cache.kind = "json"
  /\ cache.snapshot.version = SNAPSHOT_VERSION
  /\ cache' = [cache EXCEPT !.snapshot.version = SNAPSHOT_VERSION + 1]
  /\ EnvStep
  /\ UNCHANGED fs

\* the snapshot's record list is emptied
CacheDropRecords ==
  /\ cache.kind = "json"
  /\ cache.snapshot.records # <<>>
  /\ cache' = [cache EXCEPT !.snapshot.records = <<>>]
  /\ EnvStep
  /\ UNCHANGED fs

\* the first entry of the snapshot loses its "id" key
CacheBreakEntry ==
  /\ cache.kind = "json"
  /\ cache.snapshot.records # <<>>
  /\ EntryReadable(cache.snapshot.records[1])
  /\ cache' = [cache EXCEPT !.snapshot.records[1] =
                 [k \in (DOMAIN @) \ {"id"} |-> @[k]]]
  /\ EnvStep
  /\ UNCHANGED fs

\* load_index not called yet
LoaderAtRest ==
  /\ cache = CacheMissing
  /\ pc = "idle"
  /\ force_rebuild = FALSE
  /\ image_paths = <<>>
  /\ todo = <<>>
  /\ digest = <<>>
  /\ payload = NotRead
  /\ records = <<>>
  /\ ret = NoRet
  /\ prev = NoRet
  /\ loads = 0
  /\ fsops = 0
  /\ dirty = FALSE
  /\ prev_dirty = FALSE

GeneratorAtRest ==
  /\ gpc = "idle"
  /\ index = build_dataset_index(<<>>)
  /\ correct = NoCar
  /\ mode = "make"
  /\ total_choices = 0
  /\ seen_ids = {}
  /\ seen_labels = {}
  /\ distractors = <<>>
  /\ pools = <<>>
  /\ choices = <<>>
  /\ rng_calls = 0

ScoringAtRest ==
  /\ spc = "idle"
  /\ score_correct = NoCar
  /\ score_guess = NoCar
  /\ score_mode = "make"
  /\ score_detail = NoCar

\* parse_filename not called
ParserAtRest ==
  /\ ppc = "idle"
  /\ parse_path = [none |-> TRUE]
  /\ parse_result = NoCar

\* no process is writing the cache file
WritersAtRest ==
  /\ cache_text = <<>>
  /\ writers = <<>>

\* the app has not started
QuizAtRest ==
  /\ dataset = [none |-> TRUE]
  /\ state = <<>>
  /\ now = 0
  /\ issued = <<>>

InitLoad ==
  /\ fs \in [AllFiles -> {[present |-> b, mtime |-> 0, size |-> 0] : b \in BOOLEAN}]
  /\ fs[FileTxt].present
  /\ LoaderAtRest
  /\ GeneratorAtRest
  /\ ScoringAtRest
  /\ ParserAtRest
  /\ WritersAtRest
  /\ QuizAtRest

NextLoad ==
  \/ LoadCall
  \/ Enumerate
  \/ RaiseEmptyDataset
  \/ StatNext
  \/ CacheHit
  \/ ParseFiles
  \/ RaiseNoValidRecords
  \/ PersistSnapshot
  \/ AddFile
  \/ RemoveFile
  \/ TouchFile
  \/ CacheDelete
  \/ CacheGarble
  \/ CacheOtherVersion
  \/ CacheDropRecords
  \/ CacheBreakEntry

SpecLoad == InitLoad /\ [][NextLoad]_vars

(***************************************************************************)
(* Properties of load_index.  They are stated on ret, the record of the    *)
(* last finished call.                                                     *)
(***************************************************************************)
Finished == ret.kind # "none"

Returned == ret.kind \in {"hit", "rebuilt"}

IsImageName(f) == \E k \in DOMAIN Patterns : EndsWith(f.name, <<".">> \o Patterns[k])

\* the records the parser yields for the image files among S
RecordsOfFiles(S) == {parse_filename(f) : f \in {g \in S : IsImageName(g)}} \ {NoCar}

AllRejected(paths) == \A i \in DOMAIN paths : parse_filename(paths[i]) = NoCar

\* the snapshot the call read is one the claims call unusable
SeenStale ==
  /\ ret.seen.kind = "json"
  /\ ret.seen.snapshot.version # 1 \/ ret.seen.snapshot.digest # ret.digest

SeenCorrupt ==
  \/ ret.seen.kind = "garbage"
  \/ /\ ret.seen.kind = "json"
     /\ \E i \in DOMAIN ret.seen.snapshot.records :
          ~({"id", "path", "make", "model", "year"} \subseteq
              DOMAIN ret.seen.snapshot.records[i])

\* C3: whenever load_index returns records deserialized from the snapshot,
\* the record list is exactly what parsing the files currently in the data
\* directory gives.  Stated for the calls during which the directory and the
\* cache file were left alone, which every reading of the claim covers: the
\* changes happened during earlier calls.
C3_SnapshotIsCurrent ==
  (ret.kind = "hit" /\ ret.quiet) =>
     /\ SeqRange(ret.index.records) = RecordsOfFiles(ret.present)
     /\ Len(ret.index.records) = Cardinality(RecordsOfFiles(ret.present))

\* C4 as claimed: the snapshot's records are used only when its version is 1
\* and its digest equals the fresh digest; with any other version or digest
\* every file is re-parsed and a new snapshot carrying the fresh digest
\* replaces the old one.
C4_MismatchAlwaysPersists ==
  /\ ret.kind = "hit" =>
       /\ ret.seen.kind = "json"
       /\ ret.seen.snapshot.version = 1
       /\ ret.seen.snapshot.digest = ret.digest
  /\ (Finished /\ SeenStale) =>
       /\ ret.kind = "rebuilt"
       /\ ret.parsed = Len(ret.image_paths)
       /\ ret.written.kind = "json"
       /\ ret.written.snapshot.digest = ret.digest

\* C4 amended: the snapshot's records are used only when its version is 1 and
\* its digest equals the fresh digest; with any other version or digest the
\* snapshot's records are not returned and every file is re-parsed; a new
\* snapshot (version 1, fresh digest, the parsed records) replaces the old one
\* unless every file is rejected, in which case the call fails with
\* NoValidRecords and writes nothing.
C4_SnapshotUsedOnlyWhenValid ==
  /\ ret.kind = "hit" =>
       /\ ret.seen.kind = "json"
       /\ ret.seen.snapshot.version = 1
       /\ ret.seen.snapshot.digest = ret.digest
       /\ ret.parsed = 0
       /\ ret.written = NotWritten
  /\ (Finished /\ SeenStale) =>
       /\ ret.kind \in {"rebuilt", "NoValidRecords"}
       /\ ret.parsed = Len(ret.image_paths)
       /\ ret.kind = "NoValidRecords" <=> AllRejected(ret.image_paths)
       /\ ret.kind = "NoValidRecords" => ret.written = NotWritten
       /\ ret.kind = "rebuilt" =>
            /\ ret.index.records = ParseAll(ret.image_paths)
            /\ ret.written.kind = "json"
            /\ ret.written.snapshot.version = 1
            /\ ret.written.snapshot.digest = ret.digest
            /\ Len(ret.written.snapshot.records) = Len(ret.index.records)

\* a call that met a snapshot of another version with the fresh digest, and
\* rebuilt
C4_Witness ==
  /\ ret.kind = "rebuilt"
  /\ ret.seen.kind = "json"
  /\ ret.seen.snapshot.version # 1
  /\ ret.seen.snapshot.digest = ret.digest
  /\ ret.seen.snapshot.records # <<>>

\* C5: after a call that rebuilt the index, the next call over the unchanged
\* dataset (no file and no cache change since the rebuilding call began, no
\* forced rebuild) is a cache hit: it parses no file and returns the record
\* list of the rebuild, in the same order, whatever the listing order.
C5_NextLoadHits ==
  (pc = "idle" /\ prev.kind = "rebuilt" /\ ~prev_dirty /\ ret.quiet /\ ~ret.force) =>
     /\ ret.kind = "hit"
     /\ ret.parsed = 0
     /\ ret.index.records = prev.records

\* a hit after a rebuild, the directory listed in another order
C5_Witness ==
  /\ pc = "idle"
  /\ prev.kind = "rebuilt"
  /\ ~prev_dirty
  /\ ret.quiet
  /\ ret.kind = "hit"
  /\ ret.image_paths # prev.image_paths

\* C6 as claimed: a cache file that is missing, unreadable or corrupt, of
\* another version or with a stale digest never makes load_index fail: the
\* call rebuilds from the filenames and returns the rebuilt index.
C6_BadCacheAlwaysReturns ==
  (Finished /\ (ret.seen.kind = "missing" \/ SeenCorrupt \/ SeenStale)) =>
     /\ ret.kind = "rebuilt"
     /\ ret.parsed = Len(ret.image_paths)

\* C6 amended: with such a cache file the call parses every file found and
\* returns the index rebuilt from them; it fails only when every file is
\* rejected by the parser, with NoValidRecords, never with an error of the
\* cache path.
C6_BadCacheDegradesToRebuild ==
  (Finished /\ (ret.seen.kind = "missing" \/ SeenCorrupt \/ SeenStale)) =>
     /\ ret.parsed = Len(ret.image_paths)
     /\ IF AllRejected(ret.image_paths)
        THEN ret.kind = "NoValidRecords"
        ELSE ret.kind = "rebuilt" /\ ret.index.records = ParseAll(ret.image_paths)

\* a rebuild that met a snapshot with an unreadable entry and the fresh digest
C6_Witness ==
  /\ ret.kind = "rebuilt"
  /\ ret.seen.kind = "json"
  /\ ret.seen.snapshot.version = 1
  /\ ret.seen.snapshot.digest = ret.digest
  /\ SeenCorrupt

C10_UniqueIds ==
  Returned =>
    \A i, j \in DOMAIN ret.index.records :
      i # j => ret.index.records[i].id # ret.index.records[j].id

(***************************************************************************)
(* options.py                                                              *)
(***************************************************************************)
MAKE == "make"
MAKE_MODEL == "make_model"
MAKE_MODEL_YEAR == "make_model_year"
QuizModes == {MAKE, MAKE_MODEL, MAKE_MODEL_YEAR}

format_label(car, m) ==
  IF m = MAKE THEN car.make
  ELSE IF m = MAKE_MODEL THEN car.make \o <<" ">> \o car.model
  ELSE car.make \o <<" ">> \o car.model \o <<" ">> \o IntToStr(car.year)

AnswerChoice(car, m) == [id |-> car.id, label |-> format_label(car, m), car |-> car]

\* the orders rng.shuffle can leave a list in
Shuffles(list) ==
  {[i \in DOMAIN list |-> list[q[i]]] :
     q \in {r \in [DOMAIN list -> DOMAIN list] :
              \A i, j \in DOMAIN list : i # j => r[i] # r[j]}}

\* the whole index is the first tier
BuildPools_AllFirst(car, idx, m, seen) ==
  LET NotSeen(c) == c.id \notin seen
      OtherYear(c) == NotSeen(c) /\ c.year # car.year
      OtherModelOrYear(c) == NotSeen(c) /\ (c.model # car.model \/ c.year # car.year)
      OtherModel(c) == NotSeen(c) /\ c.model # car.model
      OtherMake(c) == NotSeen(c) /\ c.make # car.make
      all_pool == SelectSeq(get_random_pool(idx), NotSeen)
  IN  IF m = MAKE_MODEL_YEAR
      THEN << all_pool,
              SelectSeq(get_by_make_model(idx, car.make, car.model), OtherYear),
              SelectSeq(get_by_make(idx, car.make), OtherModelOrYear) >>
      ELSE IF m = MAKE_MODEL
      THEN << all_pool,
              SelectSeq(get_by_make_model(idx, car.make, car.model), OtherYear),
              SelectSeq(get_by_make(idx, car.make), OtherModel) >>
      ELSE << all_pool, SelectSeq(get_random_pool(idx), OtherMake) >>

\* the tiers of distractor candidates, in the order they are consumed
BuildPools(car, idx, m, seen) ==
  LET NotSeen(c) == c.id \notin seen
      OtherYear(c) == NotSeen(c) /\ c.year # car.year
      OtherModelOrYear(c) == NotSeen(c) /\ (c.model # car.model \/ c.year # car.year)
      OtherModel(c) == NotSeen(c) /\ c.model # car.model
      OtherMake(c) == NotSeen(c) /\ c.make # car.make
      all_pool == SelectSeq(get_random_pool(idx), NotSeen)
  IN  IF m = MAKE_MODEL_YEAR
      THEN << SelectSeq(get_by_make_model(idx, car.make, car.model), OtherYear),
              SelectSeq(get_by_make(idx, car.make), OtherModelOrYear),
              all_pool >>
      ELSE IF m = MAKE_MODEL
      THEN << SelectSeq(get_by_make_model(idx, car.make, car.model), OtherYear),
              SelectSeq(get_by_make(idx, car.make), OtherModel),
              all_pool >>
      ELSE << SelectSeq(get_random_pool(idx), OtherMake), all_pool >>

\* the inner loop takes a candidate whatever its label
RECURSIVE TakeFromTier_IgnoreLabels(_, _, _, _)
TakeFromTier_IgnoreLabels(pool_list, st, m, quota) ==
  IF pool_list = <<>> \/ Len(st.distractors) >= quota THEN st
  ELSE TakeFromTier_IgnoreLabels(
         Tail(pool_list),
         [distractors |-> Append(st.distractors, Head(pool_list)),
          seen_ids |-> st.seen_ids \cup {Head(pool_list).id},
          seen_labels |-> st.seen_labels \cup {format_label(Head(pool_list), m)}],
         m, quota)

\* the inner loop over one shuffled pool: a candidate is taken when the quota
\* is not met and its label is new
RECURSIVE TakeFromTier(_, _, _, _)
TakeFromTier(pool_list, st, m, quota) ==
  IF pool_list = <<>> \/ Len(st.distractors) >= quota THEN st
  ELSE LET car == Head(pool_list)
           label == format_label(car, m)
       IN  IF label \in st.seen_labels
           THEN TakeFromTier(Tail(pool_list), st, m, quota)
           ELSE TakeFromTier(Tail(pool_list),
                             [distractors |-> Append(st.distractors, car),
                              seen_ids |-> st.seen_ids \cup {car.id},
                              seen_labels |-> st.seen_labels \cup {label}],
                             m, quota)

\* the fallback loop: candidates are taken whatever their label
RECURSIVE TakeAny(_, _, _)
TakeAny(remaining, st, quota) ==
  IF remaining = <<>> \/ Len(st.distractors) >= quota THEN st
  ELSE TakeAny(Tail(remaining),
               [distractors |-> Append(st.distractors, Head(remaining)),
                seen_ids |-> st.seen_ids \cup {Head(remaining).id},
                seen_labels |-> st.seen_labels],
               quota)

\* distractors[: total_choices - 1]
Truncate(list, n) == SubSeq(list, 1, IF Len(list) < n THEN Len(list) ELSE n)

(***************************************************************************)
(* generate_choices, step by step.  The index is one load_index can build: *)
(* the records parsed from a set of image files.                           *)
(***************************************************************************)
FileD == FileAt(<<>>, Stem17(Str1("F"), Str1("a"), <<"1", "3">>, Str1("s")), ExtJpg)
FileE == FileAt(<<>>, Stem17(Str1("H"), Str1("a"), <<"1", "2">>, Str1("s")), ExtJpg)

ChoiceFiles == {FileA, FileB, FileC, FileD, FileE}

\* one enumeration of the files S: pattern by pattern, each pass sorted
RECURSIVE ListingOf(_, _)
ListingOf(S, k) ==
  IF k = 0 THEN <<>>
  ELSE ListingOf(S, k - 1) \o
       SortPaths(CHOOSE q \in Listings({f \in S : MatchesPattern(f, Patterns[k])}) : TRUE)

IndexOfFiles(S) == build_dataset_index(ParseAll(ListingOf(S, Len(Patterns))))

GenState == [distractors |-> distractors, seen_ids |-> seen_ids, seen_labels |-> seen_labels]

\* the argument check accepts a single choice
TooFewChoices_BelowOne(n) == n < 1

\* line 26: if total_choices < 2
TooFewChoices(n) == n < 2

\* lines 26-27: raise ValueError("total_choices must be at least 2.")
GenRaise ==
  /\ gpc = "start"
  /\ TooFewChoices(total_choices)
  /\ gpc' = "ValueError"
  /\ UNCHANGED <<index, correct, mode, total_choices, seen_ids, seen_labels,
                 distractors, pools, choices, rng_calls, loadVars, scoreVars,
                 parseVars, writerVars, quizVars>>

\* lines 26-68: the argument check, the seen sets and the pools
GenBuildPools ==
  /\ gpc = "start"
  /\ ~TooFewChoices(total_choices)
  /\ seen_ids' = {correct.id}
  /\ seen_labels' = {format_label(correct, mode)}
  /\ distractors' = <<>>
  /\ pools' = BuildPools(correct, index, mode, {correct.id})
  /\ gpc' = "tiers"
  /\ UNCHANGED <<index, correct, mode, total_choices, choices, rng_calls, loadVars, scoreVars, parseVars, writerVars, quizVars>>

\* lines 70-83: one pass of the loop over the pools
GenTier ==
  /\ gpc = "tiers"
  /\ \E pool_list \in Shuffles(Head(pools)) :
       LET st == TakeFromTier(pool_list, GenState, mode, total_choices - 1)
       IN  /\ distractors' = st.distractors
           /\ seen_ids' = st.seen_ids
           /\ seen_labels' = st.seen_labels
           /\ IF Len(st.distractors) >= total_choices - 1 \/ Len(pools) = 1
              THEN gpc' = "fallback" /\ pools' = <<>>
              ELSE gpc' = "tiers" /\ pools' = Tail(pools)
  /\ rng_calls' = rng_calls + 1
  /\ UNCHANGED <<index, correct, mode, total_choices, choices, loadVars, scoreVars, parseVars, writerVars, quizVars>>

\* lines 86-97: the quota is not met, the rest of the index fills the slots
GenFallback ==
  /\ gpc = "fallback"
  /\ Len(distractors) < total_choices - 1
  /\ LET NotSeen(c) == c.id \notin seen_ids
     IN  \E remaining \in Shuffles(SelectSeq(get_random_pool(index), NotSeen)) :
           LET st == TakeAny(remaining, GenState, total_choices - 1)
           IN  /\ distractors' = st.distractors
               /\ seen_ids' = st.seen_ids
  /\ rng_calls' = rng_calls + 1
  /\ gpc' = "final"
  /\ UNCHANGED <<index, correct, mode, total_choices, seen_labels, pools, choices,
                 loadVars, scoreVars, parseVars, writerVars, quizVars>>

\* line 86: the quota is met, nothing is drawn
GenSkipFallback ==
  /\ gpc = "fallback"
  /\ Len(distractors) >= total_choices - 1
  /\ gpc' = "final"
  /\ UNCHANGED <<index, correct, mode, total_choices, seen_ids, seen_labels,
                 distractors, pools, choices, rng_calls, loadVars, scoreVars, parseVars, writerVars, quizVars>>

\* lines 99-102: the correct car is added, the list shuffled and returned
GenReturn ==
  /\ gpc = "final"
  /\ \E shuffled \in Shuffles(<<correct>> \o Truncate(distractors, total_choices - 1)) :
       choices' = [i \in DOMAIN shuffled |-> AnswerChoice(shuffled[i], mode)]
  /\ rng_calls' = rng_calls + 1
  /\ gpc' = "done"
  /\ UNCHANGED <<index, correct, mode, total_choices, seen_ids, seen_labels,
                 distractors, pools, loadVars, scoreVars, parseVars, writerVars, quizVars>>

InitChoices ==
  /\ \E S \in SUBSET ChoiceFiles :
       /\ Cardinality(S) >= 1
       /\ Cardinality(S) <= MaxIndexFiles
       /\ index = IndexOfFiles(S)
  /\ correct \in SeqRange(index.records)
  /\ mode \in QuizModes
  /\ total_choices \in 0..MaxChoices
  /\ gpc = "start"
  /\ seen_ids = {}
  /\ seen_labels = {}
  /\ distractors = <<>>
  /\ pools = <<>>
  /\ choices = <<>>
  /\ rng_calls = 0
  /\ fs = [f \in AllFiles |-> [present |-> FALSE, mtime |-> 0, size |-> 0]]
  /\ LoaderAtRest
  /\ ScoringAtRest
  /\ ParserAtRest
  /\ WritersAtRest
  /\ QuizAtRest

NextChoices ==
  \/ GenRaise
  \/ GenBuildPools
  \/ GenTier
  \/ GenFallback
  \/ GenSkipFallback
  \/ GenReturn

SpecChoices == InitChoices /\ [][NextChoices]_vars

\* C1: generate_choices returns exactly total_choices choices, for every
\* total_choices >= 2, every mode and every non-empty index that contains the
\* correct record.
C1_ExactlyNChoices == gpc = "done" => Len(choices) = total_choices

\* C2: the returned choices have pairwise distinct ids, and exactly one of
\* them has the id of the correct record, and it carries the correct record.
C2_DistinctIdsOneCorrect ==
  gpc = "done" =>
    /\ \A i, j \in DOMAIN choices : i # j => choices[i].id # choices[j].id
    /\ Cardinality({i \in DOMAIN choices : choices[i].id = correct.id}) = 1
    /\ \A i \in DOMAIN choices : choices[i].id = correct.id => choices[i].car = correct

\* C13: generate_choices called with total_choices < 2 fails with the
\* ValueError of the argument check, returns no choices and has made no call
\* on the random source when it fails.
C13_RejectsBeforeDrawing ==
  total_choices < 2 =>
    /\ gpc \in {"start", "ValueError"}
    /\ choices = <<>>
    /\ distractors = <<>>
    /\ rng_calls = 0

\* the call with total_choices = 1 over an index with other records has failed
C13_Witness ==
  /\ gpc = "ValueError"
  /\ total_choices = 1
  /\ Len(index.records) > 1
  /\ rng_calls = 0

\* the labels on the returned choices
ChoiceLabels == {choices[i].label : i \in DOMAIN choices}

\* the distinct labels the index offers under the active mode
IndexLabels == {format_label(index.records[i], mode) : i \in DOMAIN index.records}

\* how close a record is to the correct one: the first tier it belongs to
TierRank(car) ==
  IF mode = "make_model_year"
  THEN (IF car.make # correct.make THEN 3
        ELSE IF car.model = correct.model /\ car.year # correct.year THEN 1
        ELSE 2)
  ELSE IF mode = "make_model"
  THEN (IF car.make # correct.make THEN 3
        ELSE IF car.model # correct.model THEN 2
        ELSE 1)
  ELSE (IF car.make # correct.make THEN 1 ELSE 2)

\* C18: a distractor is taken from a later tier only when every label the
\* earlier tiers offer is among the choices.  In mode make+model+year: another
\* make only if every label of the correct make is there, another model of the
\* correct make only if every year of the correct make+model is there; in mode
\* make+model: another make only if every model of the correct make is there.
C18_CloserTiersFirst ==
  gpc = "done" =>
    \A i \in DOMAIN choices :
      choices[i].id # correct.id =>
        \A k \in DOMAIN index.records :
          (index.records[k].id # correct.id
             /\ TierRank(index.records[k]) < TierRank(choices[i].car)) =>
            format_label(index.records[k], mode) \in ChoiceLabels

\* mode make+model+year, a distractor of another make next to a distractor of
\* the correct make and model
C18_Witness ==
  /\ gpc = "done"
  /\ mode = "make_model_year"
  /\ \E i, j \in DOMAIN choices :
       /\ choices[i].car.make # correct.make
       /\ choices[j].id # correct.id
       /\ choices[j].car.make = correct.make
       /\ choices[j].car.model = correct.model

\* C19: if the index holds at least total_choices distinct labels under the
\* mode, generate_choices returns total_choices choices with pairwise distinct
\* labels, and no distractor carries the label of the correct record.
C19_DistinctLabelsWhenPossible ==
  (gpc = "done" /\ Cardinality(IndexLabels) >= total_choices) =>
    /\ Len(choices) = total_choices
    /\ \A i, j \in DOMAIN choices : i # j => choices[i].label # choices[j].label
    /\ \A i \in DOMAIN choices :
         choices[i].id # correct.id => choices[i].label # format_label(correct, mode)

\* enough labels, and a record with the label of the correct one that had to
\* be passed over
C19_Witness ==
  /\ gpc = "done"
  /\ Cardinality(IndexLabels) >= total_choices
  /\ Len(choices) = total_choices
  /\ \E k \in DOMAIN index.records :
       /\ index.records[k].id # correct.id
       /\ format_label(index.records[k], mode) = format_label(correct, mode)

(***************************************************************************)
(* engine.py: _compute_score.  Points are counted in tenths: 1.0 is 10.    *)
(* The float sums of the code are exact here: 0.3 + 0.4 = 0.7,             *)
(* 0.7 + 0.3 = 1.0 and 0.5 + 0.5 = 1.0 hold in binary floating point.      *)
(***************************************************************************)
ScoreDetail(points, make_correct, model_correct, year_correct, m) ==
  [points |-> points, max_points |-> 10, make_correct |-> make_correct,
   model_correct |-> model_correct, year_correct |-> year_correct, mode |-> m]

\* the model flag does not ask for the make, nor the year flag for the model
compute_score_FlatFlags(car, guess, m) ==
  LET make_correct == guess.make = car.make
      model_correct == guess.model = car.model
      year_correct == guess.year = car.year
  IN  ScoreDetail(
        IF m = MAKE THEN (IF make_correct THEN 10 ELSE 0)
        ELSE IF m = MAKE_MODEL
        THEN (IF make_correct THEN 5 + (IF model_correct THEN 5 ELSE 0) ELSE 0)
        ELSE (IF make_correct
              THEN 3 + (IF model_correct
                        THEN 4 + (IF year_correct THEN 3 ELSE 0) ELSE 0)
              ELSE 0),
        make_correct, model_correct, year_correct, m)

\* the weights of the make+model+year mode are 0.4 / 0.3 / 0.3
compute_score_OtherWeights(car, guess, m) ==
  LET make_correct == guess.make = car.make
      model_correct == make_correct /\ guess.model = car.model
      year_correct == model_correct /\ guess.year = car.year
  IN  ScoreDetail(
        IF m = MAKE THEN (IF make_correct THEN 10 ELSE 0)
        ELSE IF m = MAKE_MODEL
        THEN (IF make_correct THEN 5 + (IF model_correct THEN 5 ELSE 0) ELSE 0)
        ELSE (IF make_correct
              THEN 4 + (IF model_correct
                        THEN 3 + (IF year_correct THEN 3 ELSE 0) ELSE 0)
              ELSE 0),
        make_correct, model_correct, year_correct, m)

\* in mode make+model+year the last 0.3 is given without comparing the year
compute_score_YearFree(car, guess, m) ==
  LET make_correct == guess.make = car.make
      model_correct == make_correct /\ guess.model = car.model
      year_correct == model_correct /\ guess.year = car.year
  IN  ScoreDetail(
        IF m = MAKE THEN (IF make_correct THEN 10 ELSE 0)
        ELSE IF m = MAKE_MODEL
        THEN (IF make_correct THEN 5 + (IF model_correct THEN 5 ELSE 0) ELSE 0)
        ELSE (IF make_correct
              THEN 3 + (IF model_correct THEN 4 + 3 ELSE 0)
              ELSE 0),
        make_correct, model_correct, year_correct, m)

compute_score(car, guess, m) ==
  LET make_correct == guess.make = car.make
      model_correct == make_correct /\ guess.model = car.model
      year_correct == model_correct /\ guess.year = car.year
  IN  ScoreDetail(
        IF m = MAKE THEN (IF make_correct THEN 10 ELSE 0)
        ELSE IF m = MAKE_MODEL
        THEN (IF make_correct THEN 5 + (IF model_correct THEN 5 ELSE 0) ELSE 0)
        ELSE (IF make_correct
              THEN 3 + (IF model_correct
                        THEN 4 + (IF year_correct THEN 3 ELSE 0) ELSE 0)
              ELSE 0),
        make_correct, model_correct, year_correct, m)

\* the cars a question and a guess can be about
ScoreCars == SeqRange(IndexOfFiles(ChoiceFiles).records)

\* _compute_score(correct_car, selected.car, state.mode) returns
ComputeScore ==
  /\ spc = "call"
  /\ score_detail' = compute_score(score_correct, score_guess, score_mode)
  /\ spc' = "done"
  /\ UNCHANGED <<score_correct, score_guess, score_mode, loadVars, genVars, parseVars, writerVars, quizVars>>

InitScore ==
  /\ score_correct \in ScoreCars
  /\ score_guess \in ScoreCars
  /\ score_mode \in QuizModes
  /\ score_detail = NoCar
  /\ spc = "call"
  /\ fs = [f \in AllFiles |-> [present |-> FALSE, mtime |-> 0, size |-> 0]]
  /\ LoaderAtRest
  /\ GeneratorAtRest
  /\ ParserAtRest
  /\ WritersAtRest
  /\ QuizAtRest

NextScore == ComputeScore

SpecScore == InitScore /\ [][NextScore]_vars

SameMake == score_guess.make = score_correct.make
SameModel == score_guess.model = score_correct.model
SameYear == score_guess.year = score_correct.year

\* C8: for every correct record, guess and mode the flags of the ScoreDetail
\* satisfy year_correct => model_correct => make_correct, max_points is 1.0
\* and 0 <= points <= max_points.
C8_ScoreHierarchy ==
  spc = "done" =>
    /\ score_detail.year_correct => score_detail.model_correct
    /\ score_detail.model_correct => score_detail.make_correct
    /\ score_detail.make_correct <=> SameMake
    /\ score_detail.max_points = 10
    /\ score_detail.points >= 0
    /\ score_detail.points <= score_detail.max_points

\* a guess of another make with the model and year of the correct car, scored
C8_Witness ==
  /\ spc = "done"
  /\ ~SameMake
  /\ SameModel
  /\ SameYear
  /\ score_detail.points = 0

\* C9: the points depend only on the mode and the deepest matching tier:
\* make: 1.0 / 0; make+model: 0, 0.5, 1.0; make+model+year: 0, 0.3, 0.7, 1.0;
\* in every mode a guess equal to the correct car in make, model and year
\* earns max_points.
C9_PointsTable ==
  spc = "done" =>
    LET tier == IF ~SameMake THEN 0
                ELSE IF ~SameModel THEN 1
                ELSE IF ~SameYear THEN 2 ELSE 3
        expected == IF score_mode = "make" THEN <<0, 10, 10, 10>>
                    ELSE IF score_mode = "make_model" THEN <<0, 5, 10, 10>>
                    ELSE <<0, 3, 7, 10>>
    IN  /\ score_detail.points = expected[tier + 1]
        /\ tier = 3 => score_detail.points = score_detail.max_points
        /\ score_detail.mode = score_mode

\* the example of the specification: make and model right, year wrong, in
\* mode make+model+year: 0.7
C9_Witness ==
  /\ spc = "done"
  /\ score_mode = "make_model_year"
  /\ SameMake
  /\ SameModel
  /\ ~SameYear
  /\ score_detail.points = 7
  /\ score_detail.make_correct
  /\ score_detail.model_correct
  /\ ~score_detail.year_correct

(***************************************************************************)
(* The choices of generate_choices under the scoring of _compute_score.    *)
(***************************************************************************)
\* what submitting choice i of the returned list would score
ChoiceScore(i) == compute_score(correct, choices[i].car, mode)

\* C20: if the index holds at least total_choices distinct labels under the
\* mode, the correct record is the only returned choice that _compute_score
\* awards max_points under the same mode; every distractor scores less.
C20_OnlyCorrectScoresFull ==
  (gpc = "done" /\ Cardinality(IndexLabels) >= total_choices) =>
    /\ \E i \in DOMAIN choices : choices[i].car = correct
    /\ \A i \in DOMAIN choices :
         IF choices[i].id = correct.id
         THEN /\ choices[i].car = correct
              /\ ChoiceScore(i).points = ChoiceScore(i).max_points
         ELSE ChoiceScore(i).points < ChoiceScore(i).max_points

\* mode make+model+year, enough labels, and a distractor that differs from
\* the correct record in the year only
C20_Witness ==
  /\ gpc = "done"
  /\ mode = "make_model_year"
  /\ Cardinality(IndexLabels) >= total_choices
  /\ \E i \in DOMAIN choices :
       /\ choices[i].id # correct.id
       /\ ChoiceScore(i).points = 7

(***************************************************************************)
(* parse_filename on its own: one call on one path.                        *)
(***************************************************************************)
\* token i of a generated stem, from the fourth on: the 17th and 18th are
\* told apart, the spec values between are left empty
LaterToken(i) == IF i = 17 THEN Str1("s") ELSE IF i = 18 THEN Str1("t") ELSE <<>>

\* a stem of n tokens with the given year token
StemOfTokens(year, n) ==
  Join(<<Str1("F"), Str1("a"), year>> \o [i \in 1..(n - 3) |-> LaterToken(i + 3)], "_")

\* the numbers of tokens tried: two below TOKEN_COUNT, TOKEN_COUNT, one above
TokenCounts == (TOKEN_COUNT - 2)..(TOKEN_COUNT + 1)

\* the year tokens tried: integers as int() reads them, and others
YearTokens ==
  { <<"1", "2">>, <<"-", "1">>, <<"+", "1">>, <<" ", "1">>, <<"1", " ">>, <<"0", "1">>,
    <<>>, <<"x">>, <<"1", "x">>, <<"-">>, <<"1", ".", "0">>, <<"1", " ", "2">> }

\* a file name: the stem, with a suffix or without
NameOf(stem, ext) == IF ext = <<>> THEN stem ELSE stem \o <<".">> \o ext

ParsePaths ==
  {[dir |-> d, name |-> NameOf(StemOfTokens(y, n), e)] :
     d \in {<<>>, SubDir}, y \in YearTokens, n \in TokenCounts,
     e \in {ExtJpg, ExtPng, <<>>}}

\* car = parse_filename(path)
ParseFilename ==
  /\ ppc = "call"
  /\ parse_result' = parse_filename(parse_path)
  /\ ppc' = "done"
  /\ UNCHANGED <<parse_path, loadVars, genVars, scoreVars, writerVars, quizVars>>

InitParse ==
  /\ ppc = "call"
  /\ parse_path \in ParsePaths
  /\ parse_result = NoCar
  /\ fs = [f \in AllFiles |-> [present |-> FALSE, mtime |-> 0, size |-> 0]]
  /\ LoaderAtRest
  /\ GeneratorAtRest
  /\ ScoringAtRest
  /\ WritersAtRest
  /\ QuizAtRest

NextParse == ParseFilename

SpecParse == InitParse /\ [][NextParse]_vars

\* the tokens of the stem of the path handed to parse_filename
StemTokens == Split(PathStem(parse_path), "_")

\* C12: parse_filename returns a record exactly when the stem split on "_"
\* has at least 17 tokens and its third token parses as an integer; then make,
\* model and year are tokens 1, 2 and 3 (the year as an integer), the random
\* suffix is token 17 and the id is the whole stem; otherwise no record.
C12_ParseExactly ==
  ppc = "done" =>
    IF Len(StemTokens) >= 17 /\ ParseInt(StemTokens[3]).ok
    THEN /\ parse_result # NoCar
         /\ parse_result.make = StemTokens[1]
         /\ parse_result.model = StemTokens[2]
         /\ parse_result.year = ParseInt(StemTokens[3]).val
         /\ parse_result.random_id = StemTokens[17]
         /\ parse_result.id = PathStem(parse_path)
         /\ parse_result.path = parse_path
    ELSE parse_result = NoCar

\* a stem of 18 tokens parsed: the suffix is token 17, not the last token
C12_Witness ==
  /\ ppc = "done"
  /\ Len(StemTokens) = 18
  /\ parse_result # NoCar
  /\ parse_result.random_id = Str1("s")
  /\ parse_result.year = 12

(***************************************************************************)
(* Two processes rebuild at once and write index.json (load_index, lines   *)
(* 163-165).  open("w") truncates the file and gives the process its own   *)
(* file offset, starting at 0; json.dump goes through a buffer, so the     *)
(* text reaches the file in one or more write calls, each at the offset of *)
(* the process that makes it.  The text is counted in units: one for the   *)
(* head (version and digest), one per record entry, one for the tail.      *)
(***************************************************************************)
Writers == {1, 2}

\* the files the rebuilding processes may have found
WriterFiles == {FileA, FileD}

\* _compute_digest over paths that all exist, untouched
RECURSIVE HashAll(_, _)
HashAll(sorted, hasher) ==
  IF sorted = <<>> THEN hasher
  ELSE HashAll(Tail(sorted),
               HasherUpdate(hasher, DigestEntry(Head(sorted), [mtime |-> 0, size |-> 0])))

compute_digest(paths) == HashAll(DigestOrder(paths), <<>>)

\* json.dump(serializable, fh): the text, unit by unit
JsonDump(snapshot) ==
  <<[unit |-> "head", version |-> snapshot.version, digest |-> snapshot.digest]>>
  \o [i \in DOMAIN snapshot.records |-> [unit |-> "entry", entry |-> snapshot.records[i]]]
  \o <<[unit |-> "tail"]>>

\* the text a process dumps after rebuilding from the listing it got
SnapshotText(listing) ==
  JsonDump(to_json_serializable(ParseAll(listing), compute_digest(listing)))

\* a unit of a hole left by a write beyond the end of the file
Nul == [unit |-> "nul"]

\* write(fd, block) at the offset off of the writing process
WriteAt(file, off, block) ==
  LET end == off + Len(block)
      newlen == IF Len(file) > end THEN Len(file) ELSE end
  IN  [i \in 1..newlen |->
         IF i > off /\ i <= end THEN block[i - off]
         ELSE IF i <= Len(file) THEN file[i] ELSE Nul]

\* the next block a process hands to write
NextBlock(w) ==
  LET left == Len(writers[w].text) - writers[w].off
      n == IF left < MaxWriteLen THEN left ELSE MaxWriteLen
  IN  SubSeq(writers[w].text, writers[w].off + 1, writers[w].off + n)

\* line 164: open("w"): the file is truncated, the offset is 0
WriterOpen(w) ==
  /\ writers[w].pc = "ready"
  /\ cache_text' = <<>>
  /\ writers' = [writers EXCEPT ![w].pc = "open", ![w].off = 0]
  /\ UNCHANGED <<loadVars, genVars, scoreVars, parseVars, quizVars>>

\* line 165: one write call of json.dump
WriterWrite(w) ==
  /\ writers[w].pc = "open"
  /\ writers[w].off < Len(writers[w].text)
  /\ cache_text' = WriteAt(cache_text, writers[w].off, NextBlock(w))
  /\ writers' = [writers EXCEPT ![w].off = @ + Len(NextBlock(w))]
  /\ UNCHANGED <<loadVars, genVars, scoreVars, parseVars, quizVars>>

\* the with block ends: everything is written, the file is closed
WriterClose(w) ==
  /\ writers[w].pc = "open"
  /\ writers[w].off = Len(writers[w].text)
  /\ writers' = [writers EXCEPT ![w].pc = "closed"]
  /\ UNCHANGED <<cache_text, loadVars, genVars, scoreVars, parseVars, quizVars>>

InitWriters ==
  /\ cache_text = <<>>
  /\ \E t \in [Writers -> {SnapshotText(l) :
                               l \in UNION {Listings(S) : S \in (SUBSET WriterFiles) \ {{}}}}] :
       writers = [w \in Writers |-> [pc |-> "ready", text |-> t[w], off |-> 0]]
  /\ fs = [f \in AllFiles |-> [present |-> FALSE, mtime |-> 0, size |-> 0]]
  /\ LoaderAtRest
  /\ GeneratorAtRest
  /\ ScoringAtRest
  /\ ParserAtRest
  /\ QuizAtRest

NextWriters ==
  \/ \E w \in Writers : WriterOpen(w)
  \/ \E w \in Writers : WriterWrite(w)
  \/ \E w \in Writers : WriterClose(w)

SpecWriters == InitWriters /\ [][NextWriters]_vars

\* C15: once both writers have finished, the cache file holds the complete
\* text of exactly one of them, never a mixture or a truncated text, for
\* every interleaving of their open and write steps.
C15_LastWriterWins ==
  (\A w \in Writers : writers[w].pc = "closed") =>
    \E w \in Writers : cache_text = writers[w].text

(***************************************************************************)
(* random.Random.  The generator is any deterministic state machine; here  *)
(* it has seven states.  From state 3 it never moves, so that a generator  *)
(* that keeps returning the same pick is among the behaviours.             *)
(***************************************************************************)
RngNext(r) == (3 * r + 1) % 7

\* random.Random(seed)
RngSeeded(seed) == seed % 7

\* rng._randbelow(n)
RandBelow(n, rng) == [value |-> RngNext(rng) % n, rng |-> RngNext(rng)]

\* the picked item is taken out of the sequence
rng_choice_Pop(seq, rng) ==
  LET d == RandBelow(Len(seq), rng)
  IN  [item |-> seq[d.value + 1],
       seq |-> SubSeq(seq, 1, d.value) \o SubSeq(seq, d.value + 2, Len(seq)),
       rng |-> d.rng]

\* rng.choice(seq): seq is the sequence as the call leaves it
rng_choice(seq, rng) ==
  LET d == RandBelow(Len(seq), rng)
  IN  [item |-> seq[d.value + 1], seq |-> seq, rng |-> d.rng]

\* rng.shuffle(x): for i in reversed(range(1, len(x))): swap x[i], x[randbelow(i + 1)]
RECURSIVE ShuffleDown(_, _, _)
ShuffleDown(x, i, rng) ==
  IF i < 2 THEN [list |-> x, rng |-> rng]
  ELSE LET d == RandBelow(i, rng)
           j == d.value + 1
       IN  ShuffleDown([x EXCEPT ![i] = x[j], ![j] = x[i]], i - 1, d.rng)

rng_shuffle(x, rng) == ShuffleDown(x, Len(x), rng)

(***************************************************************************)
(* generate_choices as one call on a given random source.                  *)
(***************************************************************************)
\* lines 70-83: the loop over the pools
RECURSIVE RunPools(_, _, _, _, _)
RunPools(pool_seq, st, rng, m, quota) ==
  IF pool_seq = <<>> THEN [st |-> st, rng |-> rng]
  ELSE LET sh == rng_shuffle(Head(pool_seq), rng)
           taken == TakeFromTier(sh.list, st, m, quota)
       IN  IF Len(taken.distractors) >= quota THEN [st |-> taken, rng |-> sh.rng]
           ELSE RunPools(Tail(pool_seq), taken, sh.rng, m, quota)

generate_choices(car, idx, m, n, rng) ==
  IF TooFewChoices(n) THEN [kind |-> "ValueError", rng |-> rng]
  ELSE
    LET st0 == [distractors |-> <<>>, seen_ids |-> {car.id},
                seen_labels |-> {format_label(car, m)}]
        tiers == RunPools(BuildPools(car, idx, m, {car.id}), st0, rng, m, n - 1)
        short == Len(tiers.st.distractors) < n - 1
        NotSeen(c) == c.id \notin tiers.st.seen_ids
        sh == rng_shuffle(SelectSeq(get_random_pool(idx), NotSeen), tiers.rng)
        filled == IF short THEN TakeAny(sh.list, tiers.st, n - 1) ELSE tiers.st
        rng_filled == IF short THEN sh.rng ELSE tiers.rng
        final == rng_shuffle(<<car>> \o Truncate(filled.distractors, n - 1), rng_filled)
    IN  [kind |-> "ok",
         choices |-> [i \in DOMAIN final.list |-> AnswerChoice(final.list[i], m)],
         rng |-> final.rng]

(***************************************************************************)
(* engine.py: the quiz session.  Time is counted in ticks of the clock.    *)
(***************************************************************************)
DEFAULT_CHOICE_COUNT == 10

NoQuestion == [none |-> TRUE]
NoChoice == [none |-> TRUE]
NoState == [none |-> TRUE]
NoIndex == [none |-> TRUE]

\* the seed argument: None, or an integer
NoSeed == [given |-> FALSE]
SeedOf(n) == [given |-> TRUE, value |-> n]

\* lines 53-54: if seed is None: seed = time.time_ns()
ChooseSeed(seed, time_ns) == IF seed.given THEN seed.value ELSE time_ns

\* the generator is left unseeded: random.Random() seeds itself from the clock
SeedRng_Unseeded(seed, time_ns) == RngSeeded(time_ns)

\* line 56: state.rng = random.Random(seed)
SeedRng(seed, time_ns) == RngSeeded(seed)

reset_quiz_state(st, m, duration_seconds, seed, time, time_ns) ==
  [st EXCEPT !.mode = m,
             !.duration_seconds = duration_seconds,
             !.used_ids = {},
             !.history = <<>>,
             !.current_question = NoQuestion,
             !.score = 0,
             !.completed = FALSE,
             !.start_time = time,
             !.rng_seed = ChooseSeed(seed, time_ns),
             !.rng = SeedRng(ChooseSeed(seed, time_ns), time_ns)]

\* QuizState(mode, total_questions, duration_seconds), then reset_quiz_state;
\* start_time, rng_seed and rng are None until the reset sets them
create_quiz_state(m, total_questions, duration_seconds, seed, time, time_ns) ==
  reset_quiz_state(
    [mode |-> m, total_questions |-> total_questions,
     duration_seconds |-> duration_seconds, used_ids |-> {}, history |-> <<>>,
     current_question |-> NoQuestion, score |-> 0, start_time |-> time,
     completed |-> FALSE, rng_seed |-> 0, rng |-> 0],
    m, duration_seconds, seed, time, time_ns)

is_time_up(st, time) == (time - st.start_time) >= st.duration_seconds

\* the tries of the random phase (line 135), taken TryRound at a time
MaxTries == 256
TryRound == 16

\* lines 135-138: up to tries random picks, stopping at the first unused id
RECURSIVE TryUpTo(_, _, _, _)
TryUpTo(pool, used, rng, tries) ==
  IF tries = 0 THEN [found |-> FALSE, pool |-> pool, rng |-> rng]
  ELSE LET c == rng_choice(pool, rng)
       IN  IF c.item.id \notin used
           THEN [found |-> TRUE, car |-> c.item, pool |-> c.seq, rng |-> c.rng]
           ELSE TryUpTo(c.seq, used, c.rng, tries - 1)

\* the same loop round after round, each round going on where the last ended
RECURSIVE RandomTries(_, _, _, _)
RandomTries(pool, used, rng, tries) ==
  IF tries = 0 THEN [found |-> FALSE, pool |-> pool, rng |-> rng]
  ELSE LET n == IF tries > TryRound THEN TryRound ELSE tries
           round == TryUpTo(pool, used, rng, n)
       IN  IF round.found THEN round
           ELSE RandomTries(round.pool, used, round.rng, tries - n)

\* lines 140-142: the first record of the pool with an unused id
RECURSIVE FirstUnused(_, _)
FirstUnused(pool, used) ==
  IF pool = <<>> THEN NoCar
  ELSE IF Head(pool).id \notin used THEN Head(pool)
  ELSE FirstUnused(Tail(pool), used)

\* the used ids are dropped before every selection
UsedFor_AlwaysClear(pool, used_ids) == {}

\* lines 130-133: available = len(pool) - len(state.used_ids); if available <= 0:
\* state.used_ids.clear()
UsedFor(pool, used_ids) ==
  IF Len(pool) - Cardinality(used_ids) <= 0 THEN {} ELSE used_ids

\* _select_car; pool is index.records itself, as the call leaves it
select_car(idx, used_ids, rng) ==
  LET pool == get_random_pool(idx)
  IN  IF pool = <<>>
      THEN [kind |-> "RuntimeError", used_ids |-> used_ids, rng |-> rng, pool |-> pool]
      ELSE
        LET used == UsedFor(pool, used_ids)
            tried == RandomTries(pool, used, rng, MaxTries)
            scanned == FirstUnused(tried.pool, used)
        IN  IF tried.found
            THEN [kind |-> "ok", car |-> tried.car, used_ids |-> used,
                  rng |-> tried.rng, pool |-> tried.pool]
            ELSE IF scanned # NoCar
            THEN [kind |-> "ok", car |-> scanned, used_ids |-> used,
                  rng |-> tried.rng, pool |-> tried.pool]
            ELSE [kind |-> "RuntimeError", used_ids |-> used, rng |-> tried.rng,
                  pool |-> tried.pool]

QuizQuestion(number, car, question_choices) ==
  [number |-> number, car |-> car, choices |-> question_choices]

\* ensure_question: the state it leaves, what it returns ("question", "none")
\* or raises, and index.records as it leaves them
\* the active question is never reused
HasActiveQuestion_Never(st) == FALSE

\* line 67: if state.current_question is not None
HasActiveQuestion(st) == st.current_question # NoQuestion

ensure_question(st, idx, time) ==
  IF st.completed THEN [state |-> st, kind |-> "none", pool |-> idx.records]
  ELSE IF is_time_up(st, time)
  THEN [state |-> [st EXCEPT !.completed = TRUE], kind |-> "none", pool |-> idx.records]
  ELSE IF HasActiveQuestion(st)
  THEN [state |-> st, kind |-> "question", question |-> st.current_question,
        pool |-> idx.records]
  ELSE IF Len(st.history) >= st.total_questions
  THEN [state |-> [st EXCEPT !.completed = TRUE], kind |-> "none", pool |-> idx.records]
  ELSE
    LET sel == select_car(idx, st.used_ids, st.rng)
    IN  IF sel.kind # "ok"
        THEN [state |-> [st EXCEPT !.used_ids = sel.used_ids, !.rng = sel.rng],
              kind |-> sel.kind, pool |-> sel.pool]
        ELSE
          LET gen == generate_choices(sel.car, idx, st.mode, DEFAULT_CHOICE_COUNT, sel.rng)
              question == QuizQuestion(Len(st.history) + 1, sel.car, gen.choices)
          IN  [state |-> [st EXCEPT !.used_ids = sel.used_ids \cup {sel.car.id},
                                    !.rng = gen.rng,
                                    !.current_question = question],
               kind |-> "question", question |-> question, pool |-> sel.pool]

\* _find_choice: the first choice with the id
RECURSIVE FindIn(_, _)
FindIn(choice_seq, choice_id) ==
  IF choice_seq = <<>> THEN NoChoice
  ELSE IF Head(choice_seq).id = choice_id THEN Head(choice_seq)
  ELSE FindIn(Tail(choice_seq), choice_id)

find_choice(question, choice_id) == FindIn(question.choices, choice_id)

QuestionResult(question, selected_choice, score) ==
  [question |-> question, selected_choice |-> selected_choice, score |-> score]

\* the score of the last answer replaces the running score
RecordResult_KeepLast(st, result) ==
  [st EXCEPT !.score = result.score.points,
             !.history = Append(@, result),
             !.current_question = NoQuestion]

\* lines 97-100: state.score += score_detail.points; state.history.append(result);
\* state.current_question = None
RecordResult(st, result) ==
  [st EXCEPT !.score = @ + result.score.points,
             !.history = Append(@, result),
             !.current_question = NoQuestion]

\* submit_answer: the state it leaves and what it returns ("scored") or raises
submit_answer(st, choice_id, time) ==
  IF st.current_question = NoQuestion THEN [state |-> st, kind |-> "RuntimeError"]
  ELSE
    LET selected == find_choice(st.current_question, choice_id)
    IN  IF selected = NoChoice THEN [state |-> st, kind |-> "ValueError"]
        ELSE
          LET detail == compute_score(st.current_question.car, selected.car, st.mode)
              result == QuestionResult(st.current_question, selected, detail)
              recorded == RecordResult(st, result)
              over == Len(recorded.history) >= recorded.total_questions
                        \/ is_time_up(recorded, time)
          IN  [state |-> [recorded EXCEPT !.completed = over \/ @],
               kind |-> "scored", score |-> detail]
(***************************************************************************)
(* The app: get_index() once, then sessions calling the engine.            *)
(***************************************************************************)
Sessions == {1, 2}

\* the seeds the clock gives, and the seed arguments a caller passes
Seeds == {0, 3}
SeedArgs == {NoSeed, SeedOf(3)}

\* the modes the sessions are played in: the coarsest and the finest
SessionModes == {MAKE, MAKE_MODEL_YEAR}

\* the app passes its TOTAL_QUESTIONS to every session it creates
AppTotals ==
  IF \A s \in Sessions : state[s] = NoState THEN 0..MaxQuestions
  ELSE {state[s].total_questions : s \in {t \in Sessions : state[t] # NoState}}

\* the time limit of every session
QuizDuration == MaxNow

FileG == FileAt(<<>>, Stem17(Str1("H"), Str1("a"), <<"1", "2">>, Str1("s")), ExtJpeg)
FileP == FileAt(<<>>, Stem17(Str1("F"), Str1("a"), <<"1", "3">>, Str1("s")), ExtPng)

\* the sets of image files the data directory may hold when the app starts
QuizFileSets == {{FileA}, {FileA, FileB}, {FileA, FileG, FileP}}

\* the pattern whose rglob pass yields the file
PatternRank(f) == CHOOSE k \in DOMAIN Patterns : MatchesPattern(f, Patterns[k])

\* the orders _iter_image_paths may yield them in
QuizListings ==
  {l \in UNION {Listings(S) : S \in QuizFileSets} :
     \A i, j \in DOMAIN l : i < j => PatternRank(l[i]) <= PatternRank(l[j])}

\* an id no choice has
UnknownId == Str1("x")

\* the ids a caller submits: that of the first or of the last choice of the
\* active question, or an unknown one
ChoiceIdsOf(st) ==
  IF st.current_question = NoQuestion THEN {UnknownId}
  ELSE {st.current_question.choices[1].id,
        st.current_question.choices[Len(st.current_question.choices)].id,
        UnknownId}

\* app.get_index: load_index returns the index of the records it parsed
GetIndex ==
  /\ dataset = NoIndex
  /\ \E listing \in QuizListings : dataset' = build_dataset_index(ParseAll(listing))
  /\ UNCHANGED <<state, now, issued, loadVars, genVars, scoreVars,
                 parseVars, writerVars>>

\* create_quiz_state(mode, total_questions, duration_seconds, seed)
CreateQuiz(s) ==
  /\ dataset # NoIndex
  /\ state[s] = NoState
  /\ \E m \in SessionModes, n \in AppTotals, seed \in SeedArgs, time_ns \in Seeds :
       state' = [state EXCEPT ![s] =
                   create_quiz_state(m, n, QuizDuration, seed, now, time_ns)]
  /\ issued' = [issued EXCEPT ![s] = <<>>]
  /\ UNCHANGED <<dataset, now, loadVars, genVars, scoreVars, parseVars, writerVars>>

\* reset_quiz_state(state, mode, duration_seconds, seed)
ResetQuiz(s) ==
  /\ state[s] # NoState
  /\ \E m \in SessionModes, seed \in SeedArgs, time_ns \in Seeds :
       state' = [state EXCEPT ![s] =
                   reset_quiz_state(@, m, QuizDuration, seed, now, time_ns)]
  /\ issued' = [issued EXCEPT ![s] = <<>>]
  /\ UNCHANGED <<dataset, now, loadVars, genVars, scoreVars, parseVars, writerVars>>

\* ensure_question(state, index)
EnsureQuestion(s) ==
  /\ dataset # NoIndex
  /\ state[s] # NoState
  /\ \E r \in {ensure_question(state[s], dataset, now)} :
         /\ state' = [state EXCEPT ![s] = r.state]
         /\ dataset' = [dataset EXCEPT !.records = r.pool]
         /\ issued' = IF r.kind = "question" /\ state[s].current_question = NoQuestion
                      THEN [issued EXCEPT ![s] = Append(@, r.question)]
                      ELSE issued
  /\ UNCHANGED <<now, loadVars, genVars, scoreVars, parseVars, writerVars>>

\* submit_answer(state, choice_id)
SubmitAnswer(s) ==
  /\ state[s] # NoState
  /\ \E choice_id \in ChoiceIdsOf(state[s]) :
       state' = [state EXCEPT ![s] = submit_answer(@, choice_id, now).state]
  /\ UNCHANGED <<dataset, now, issued, loadVars, genVars, scoreVars,
                 parseVars, writerVars>>

\* time passes
Tick ==
  /\ now < MaxNow
  /\ now' = now + 1
  /\ UNCHANGED <<dataset, state, issued, loadVars, genVars,
                 scoreVars, parseVars, writerVars>>

InitQuiz ==
  /\ dataset = NoIndex
  /\ state = [s \in Sessions |-> NoState]
  /\ now = 0
  /\ issued = [s \in Sessions |-> <<>>]
  /\ fs = [f \in AllFiles |-> [present |-> FALSE, mtime |-> 0, size |-> 0]]
  /\ LoaderAtRest
  /\ GeneratorAtRest
  /\ ScoringAtRest
  /\ ParserAtRest
  /\ WritersAtRest

NextQuiz ==
  \/ GetIndex
  \/ \E s \in Sessions : CreateQuiz(s)
  \/ \E s \in Sessions : ResetQuiz(s)
  \/ \E s \in Sessions : EnsureQuestion(s)
  \/ \E s \in Sessions : SubmitAnswer(s)
  \/ Tick

SpecQuiz == InitQuiz /\ [][NextQuiz]_vars

DatasetBuilt == dataset # NoIndex

\* the two maps of idx are exact projections of its record list
IsProjection(idx) ==
  /\ DOMAIN idx.by_make = {idx.records[i].make : i \in DOMAIN idx.records}
  /\ \A m \in DOMAIN idx.by_make :
       LET OfMake(r) == r.make = m
       IN  /\ idx.by_make[m] # <<>>
           /\ idx.by_make[m] = SelectSeq(idx.records, OfMake)
  /\ DOMAIN idx.by_make_model =
       {<<idx.records[i].make, idx.records[i].model>> : i \in DOMAIN idx.records}
  /\ \A mm \in DOMAIN idx.by_make_model :
       LET OfMakeModel(r) == <<r.make, r.model>> = mm
       IN  /\ idx.by_make_model[mm] # <<>>
           /\ idx.by_make_model[mm] = SelectSeq(idx.records, OfMakeModel)

\* C11: in every built index by_make and by_make_model are exact projections
\* of the record list: the groups are those of the makes / (make, model) pairs
\* that occur, none is empty, and each group is the record list filtered by
\* its key, in the order of the record list (so every record is in its own
\* group once and in no other).  It holds of the index handed to
\* generate_choices and of the index the app's sessions share.
C11_MapsAreProjections ==
  /\ IsProjection(index)
  /\ DatasetBuilt => IsProjection(dataset)

\* an index with two makes, one of them holding two records that the record
\* list does not keep next to each other, after generate_choices has run on it
C11_Witness ==
  /\ gpc = "done"
  /\ Cardinality(DOMAIN index.by_make) = 2
  /\ Len(index.records) = 3
  /\ index.records[1].make = index.records[3].make
  /\ index.records[1].make # index.records[2].make

\* a session on which ensure_question has to select a car: not completed, no
\* active question, questions left, the time limit not reached
NeedsQuestion(s) ==
  /\ state[s] # NoState
  /\ ~state[s].completed
  /\ state[s].current_question = NoQuestion
  /\ Len(state[s].history) < state[s].total_questions
  /\ ~is_time_up(state[s], now)

\* C14: on every such session ensure_question yields a question: selecting
\* the car never fails on a non-empty index.
C14_SelectionNeverFails ==
  \A s \in Sessions :
    (DatasetBuilt /\ NeedsQuestion(s)) =>
      ensure_question(state[s], dataset, now).kind = "question"

\* C16: once built, the index is never changed: no engine call of any session
\* changes its record list, by_make or by_make_model.
C16_IndexNeverMutated == [][DatasetBuilt => dataset' = dataset]_vars

\* both sessions have answered a question over the index and hold the next
C16_Witness ==
  /\ DatasetBuilt
  /\ Len(dataset.records) > 1
  /\ \A s \in Sessions :
       /\ state[s] # NoState
       /\ state[s].history # <<>>
       /\ state[s].current_question # NoQuestion

\* two sessions set up alike: the same seed, the same mode, the same number
\* of questions
SameSetup(s, t) ==
  /\ state[s] # NoState
  /\ state[t] # NoState
  /\ state[s].rng_seed = state[t].rng_seed
  /\ state[s].mode = state[t].mode
  /\ state[s].total_questions = state[t].total_questions

\* the choices submitted before question k are the same in both
SameAnswersBefore(s, t, k) ==
  \A i \in 1..(k - 1) :
    (i <= Len(state[s].history) /\ i <= Len(state[t].history)) =>
      state[s].history[i].selected_choice.id = state[t].history[i].selected_choice.id

\* C17: two sessions created with the same seed, mode and total_questions over
\* the same index, and given the same submitted choices, are issued the same
\* car with the same choices in the same order at every question.
C17_SeedFixesQuestions ==
  \A s, t \in Sessions :
    SameSetup(s, t) =>
      \A k \in 1..Len(issued[s]) :
        (k <= Len(issued[t]) /\ SameAnswersBefore(s, t, k)) =>
          issued[s][k] = issued[t][k]

\* two sessions with the same seed, created at different times, have each
\* been issued two questions over an index of three records
C17_Witness ==
  /\ DatasetBuilt
  /\ Len(dataset.records) = 3
  /\ SameSetup(1, 2)
  /\ state[1].start_time # state[2].start_time
  /\ Len(issued[1]) = 2
  /\ Len(issued[2]) = 2
  /\ issued[1] = issued[2]
  /\ issued[1][1].car # issued[1][2].car

\* what the two calls of a session would do now
EnsureNow(s) == ensure_question(state[s], dataset, now)
SubmitNow(s, choice_id) == submit_answer(state[s], choice_id, now)

\* the quiz of the session is over: completed is set, or the time limit has
\* been reached
QuizOver(s) ==
  /\ state[s] # NoState
  /\ state[s].completed \/ is_time_up(state[s], now)

\* C21: a completed quiz is final: when completed is set or the time limit has
\* been reached, ensure_question returns no question and neither it nor
\* submit_answer, with any choice, changes history or score.
C21_CompletedIsFinal ==
  \A s \in Sessions :
    (DatasetBuilt /\ QuizOver(s)) =>
      /\ EnsureNow(s).kind = "none"
      /\ EnsureNow(s).state.history = state[s].history
      /\ EnsureNow(s).state.score = state[s].score
      /\ \A choice_id \in ChoiceIdsOf(state[s]) :
           /\ SubmitNow(s, choice_id).state.history = state[s].history
           /\ SubmitNow(s, choice_id).state.score = state[s].score

\* the points of the results of a history, added up
RECURSIVE SumPoints(_)
SumPoints(history) ==
  IF history = <<>> THEN 0
  ELSE SumPoints(SubSeq(history, 1, Len(history) - 1)) + history[Len(history)].score.points

\* C22: in every reachable state of a session the score is the sum of the
\* points of the results in its history, 0 <= score <= len(history) <=
\* total_questions (a result is worth at most max_points = 10 tenths), and the
\* questions of the history are numbered 1, 2, ..., len(history) in order.
C22_ScoreIsSumOfHistory ==
  \A s \in Sessions :
    state[s] # NoState =>
      /\ state[s].score = SumPoints(state[s].history)
      /\ 0 <= state[s].score
      /\ state[s].score <= 10 * Len(state[s].history)
      /\ Len(state[s].history) <= state[s].total_questions
      /\ \A i \in DOMAIN state[s].history : state[s].history[i].question.number = i

\* a session with two answers, the first of which scored
C22_Witness ==
  \E s \in Sessions :
    /\ state[s] # NoState
    /\ Len(state[s].history) = 2
    /\ state[s].history[1].score.points > 0
    /\ state[s].score < 20

\* C23: ensure_question is idempotent while a question is active: when a
\* session holds a question and the time limit is not reached, the call
\* returns that question (the same car and choices) and leaves the whole
\* session state (used_ids, history, score and the random source among it) and
\* the index as they are.
C23_EnsureIdempotent ==
  \A s \in Sessions :
    (/\ DatasetBuilt
     /\ state[s] # NoState
     /\ state[s].current_question # NoQuestion
     /\ ~is_time_up(state[s], now)) =>
      /\ EnsureNow(s).kind = "question"
      /\ EnsureNow(s).question = state[s].current_question
      /\ EnsureNow(s).state = state[s]
      /\ EnsureNow(s).pool = dataset.records

\* a session that has answered one question holds the second, over an index
\* that has more records, with time left
C23_Witness ==
  \E s \in Sessions :
    /\ DatasetBuilt
    /\ Len(dataset.records) = 3
    /\ state[s] # NoState
    /\ state[s].current_question # NoQuestion
    /\ state[s].current_question.number = 2
    /\ Cardinality(state[s].used_ids) = 2
    /\ ~is_time_up(state[s], now)

\* the ids of the records of the index
RecordIds == {dataset.records[i].id : i \in DOMAIN dataset.records}

\* the questions a session can be asked before the index is exhausted
FreshQuestions(s) ==
  IF state[s].total_questions < Len(dataset.records)
  THEN state[s].total_questions ELSE Len(dataset.records)

\* the questions issued since the last reset, up to that number, are about
\* cars of pairwise distinct ids
DistinctCars(s) ==
  (DatasetBuilt /\ state[s] # NoState) =>
    \A i, j \in DOMAIN issued[s] :
      (i < j /\ j <= FreshQuestions(s)) => issued[s][i].car.id # issued[s][j].car.id

\* what a step may do to the used ids of a session: leave them, empty them
\* with the rest of the session (reset_quiz_state), or take in the id of the
\* car of a new question, an id that was not among them unless every record
\* had been used, in which case they restart from that id alone
UsedIdsStep(s) ==
  (DatasetBuilt /\ state[s] # NoState) =>
    LET old == state[s].used_ids
        new == state'[s].used_ids
    IN  \/ new = old
        \/ /\ new = {}
           /\ state'[s].history = <<>>
           /\ state'[s].current_question = NoQuestion
        \/ /\ state[s].current_question = NoQuestion
           /\ state'[s].current_question # NoQuestion
           /\ LET id == state'[s].current_question.car.id
              IN  \/ id \notin old /\ new = old \cup {id}
                  \/ RecordIds \subseteq old /\ new = {id}

\* C24: within a session a car is not asked twice before the index is
\* exhausted: the first min(total_questions, number of records) questions
\* after a reset have pairwise distinct car ids, the car of a new question has
\* an id that is not in used_ids, used_ids takes in the id of every car asked,
\* and it is emptied only by reset_quiz_state or when every record has been
\* used.
C24_NoRepeatBeforeExhaustion ==
  /\ [](\A s \in Sessions : DistinctCars(s))
  /\ [][\A s \in Sessions : UsedIdsStep(s)]_vars

\* a session whose random source keeps returning the same pick has been asked
\* two different cars of an index of three
C24_Witness ==
  \E s \in Sessions :
    /\ DatasetBuilt
    /\ Len(dataset.records) = 3
    /\ state[s] # NoState
    /\ state[s].rng = RngNext(state[s].rng)
    /\ Len(issued[s]) = 2
    /\ issued[s][1].car.id # issued[s][2].car.id
    /\ state[s].used_ids = {issued[s][1].car.id, issued[s][2].car.id}

====
